---------------------------- MODULE Spec2Model ----------------------------
(***************************************************************************)
(* A model of the scalar reverse-mode autograd engine of                   *)
(* src/micrograd.ipynb (class Value) and of the training loop that drives  *)
(* it.                                                                     *)
(*                                                                         *)
(* The store `nodes` is the sequence of all Value objects created so far;  *)
(* a Value is identified by its index (object identity).  Each node keeps  *)
(* the fields of Value.__init__ (data, grad, _prev, _op) and, in place of  *)
(* the closure `_backward`, the variables that closure captures: `self`,   *)
(* `other` and the exponent.  The rule is dispatched on `op`.              *)
(*                                                                         *)
(* Numbers are Python floats in the source.  The model follows exactly the *)
(* runs whose float values are integers: every arithmetic operator below   *)
(* is exact on them, and an operation whose float result would not be an   *)
(* integer (tanh(2), 3 ** -1, ...) is outside the inputs that are          *)
(* enumerated (see Representable).                                         *)
(***************************************************************************)
EXTENDS Integers, Sequences, FiniteSets, TLC

VARIABLES nodes, last, passes, script

vars == <<nodes, last, passes, script>>

(***************************************************************************)
(* Bounds of the model.                                                    *)
(***************************************************************************)
MaxNodes == 3

MaxPasses == 2

MaxLinks == 1

LeafVals == {0, 1, 3}

ScalarVals == {1, 3}

PowExps == {-1, 2}

DiamondVals == {2, 3}

(***************************************************************************)
(* Arguments of the operator methods: a Value (by index) or a plain        *)
(* Python number.                                                          *)
(***************************************************************************)
ValueArg(i) == [isValue |-> TRUE, v |-> i]

ScalarArg(s) == [isValue |-> FALSE, v |-> s]

NoOp == [op |-> "init", t |-> 0, arg |-> ScalarArg(0), err |-> "none",
         calls |-> <<>>, topo |-> <<>>]

(***************************************************************************)
(* Value.__init__: grad starts at 0.0, _prev is the SET of the children.   *)
(***************************************************************************)
NewValue(data, children, op, slf, oth, ex) ==
    [data |-> data, grad |-> 0, prev |-> children, op |-> op,
     self |-> slf, other |-> oth, exp |-> ex]

\* other if isinstance(other, Value) else Value(other)
Coerce(ns, o) ==
    IF o.isValue
    THEN [ns |-> ns, v |-> o.v]
    ELSE [ns |-> Append(ns, NewValue(o.v, {}, "", 0, 0, 0)), v |-> Len(ns) + 1]

\* Value.__add__
AddOp(ns, a, o) ==
    LET c == Coerce(ns, o)
    IN  Append(c.ns, NewValue(c.ns[a].data + c.ns[c.v].data, {a, c.v}, "+", a, c.v, 0))

\* Value.__mul__
MulOp(ns, a, o) ==
    LET c == Coerce(ns, o)
    IN  Append(c.ns, NewValue(c.ns[a].data * c.ns[c.v].data, {a, c.v}, "*", a, c.v, 0))

\* Value.__rmul__: other * self  is  self * other
RMulOp(ns, a, o) == MulOp(ns, a, o)

\* Python's ** on the integers the model carries; x ** p with p < 0 is an
\* integer only for x = 1 or x = -1, where 1 / x^k = x^k.
RECURSIVE NatPow(_, _)
NatPow(x, k) == IF k = 0 THEN 1 ELSE x * NatPow(x, k - 1)

PyPow(x, p) == IF p >= 0 THEN NatPow(x, p) ELSE NatPow(x, -p)

\* x ** p is an integer (and raises nothing)
PowRepresentable(x, p) == p >= 0 \/ x \in {1, -1}


\* faulty variant: a Value exponent is accepted and its data used
PowOpValueExponent(ns, a, o) ==
    LET p == IF o.isValue THEN ns[o.v].data ELSE o.v
    IN  [ns |-> Append(ns, NewValue(PyPow(ns[a].data, p), {a}, "**", a, 0, p)),
         err |-> "none"]

\* Value.__pow__: the assert rejects an exponent that is not an int/float
\* before anything is built; 0 ** p with p < 0 raises in the forward pass.
PowOp(ns, a, o) ==
    IF o.isValue
    THEN [ns |-> ns, err |-> "AssertionError"]
    ELSE IF ns[a].data = 0 /\ o.v < 0
    THEN [ns |-> ns, err |-> "ZeroDivisionError"]
    ELSE [ns |-> Append(ns, NewValue(PyPow(ns[a].data, o.v), {a}, "**", a, 0, o.v)),
          err |-> "none"]

\* Value.__neg__: self * -1
NegOp(ns, a) == MulOp(ns, a, ScalarArg(-1))

\* Value.__sub__: self + (-other); -other is Value.__neg__ for a Value and
\* plain negation for a number.
SubOp(ns, a, o) ==
    IF o.isValue
    THEN LET ns1 == NegOp(ns, o.v) IN AddOp(ns1, a, ValueArg(Len(ns1)))
    ELSE AddOp(ns, a, ScalarArg(-o.v))

\* Value.__truediv__: self * other ** -1 (** binds tighter than *); for a
\* number other, other ** -1 is plain arithmetic (1 / other = other for 1, -1).
DivOp(ns, a, o) ==
    IF o.isValue
    THEN LET r == PowOp(ns, o.v, ScalarArg(-1))
         IN  IF r.err # "none" THEN r
             ELSE [ns |-> MulOp(r.ns, a, ValueArg(Len(r.ns))), err |-> "none"]
    ELSE IF o.v = 0 THEN [ns |-> ns, err |-> "ZeroDivisionError"]
    ELSE [ns |-> MulOp(ns, a, ScalarArg(PyPow(o.v, -1))), err |-> "none"]

\* (math.exp(2x) - 1) / (math.exp(2x) + 1) in IEEE doubles: 0.0 at 0, exactly
\* 1.0 from x = 19 on (exp(2x) >= 2^53 absorbs the 1), exactly -1.0 from
\* x = -19 down; math.exp(2x) overflows for x >= 355.
TanhOverflow == 355

TanhSaturate == 19

TanhVal(x) == IF x = 0 THEN 0 ELSE IF x > 0 THEN 1 ELSE -1

TanhRepresentable(x) == x = 0 \/ x >= TanhSaturate \/ x <= -TanhSaturate

\* Value.tanh
TanhOp(ns, a) ==
    IF ns[a].data >= TanhOverflow
    THEN [ns |-> ns, err |-> "OverflowError"]
    ELSE [ns |-> Append(ns, NewValue(TanhVal(ns[a].data), {a}, "tanh", a, 0, 0)),
          err |-> "none"]

\* math.exp(x) is an integer only at x = 0
ExpRepresentable(x) == x = 0

\* Value.exp
ExpOp(ns, a) == Append(ns, NewValue(1, {a}, "exp", a, 0, 0))

(***************************************************************************)
(* The closures _backward.  Each statement `x.grad += e` reads e and        *)
(* x.grad when it runs, so the statements are applied one after the other.  *)
(***************************************************************************)
\* faulty variant: the gradient is overwritten instead of accumulated
AccumOverwrite(ns, i, delta) == [ns EXCEPT ![i].grad = delta]

\* x.grad += delta
Accum(ns, i, delta) == [ns EXCEPT ![i].grad = @ + delta]

AddBackward(ns, n) ==
    LET ns1 == Accum(ns, ns[n].self, 1 * ns[n].grad)
    IN  Accum(ns1, ns[n].other, 1 * ns1[n].grad)

\* faulty variant: each operand is scaled by its own data instead of the other's
MulBackwardOwnData(ns, n) ==
    LET ns1 == Accum(ns, ns[n].self, ns[ns[n].self].data * ns[n].grad)
    IN  Accum(ns1, ns[n].other, ns1[ns[n].other].data * ns1[n].grad)

MulBackward(ns, n) ==
    LET ns1 == Accum(ns, ns[n].self, ns[ns[n].other].data * ns[n].grad)
    IN  Accum(ns1, ns[n].other, ns1[ns[n].self].data * ns1[n].grad)

PowBackward(ns, n) ==
    Accum(ns, ns[n].self,
          ns[n].exp * PyPow(ns[ns[n].self].data, ns[n].exp - 1) * ns[n].grad)

\* t is the forward result, which is the data of the tanh node
TanhBackward(ns, n) ==
    Accum(ns, ns[n].self, (1 - PyPow(ns[n].data, 2)) * ns[n].grad)

ExpBackward(ns, n) == Accum(ns, ns[n].self, ns[n].data * ns[n].grad)

\* node._backward()
RunRule(ns, n) ==
    CASE ns[n].op = "+" -> AddBackward(ns, n)
      [] ns[n].op = "*" -> MulBackward(ns, n)
      [] ns[n].op = "**" -> PowBackward(ns, n)
      [] ns[n].op = "tanh" -> TanhBackward(ns, n)
      [] ns[n].op = "exp" -> ExpBackward(ns, n)
      [] OTHER -> ns

(***************************************************************************)
(* Value.backward.  `for child in v._prev` iterates a Python set, whose    *)
(* order is not fixed: `flip` is the set of nodes whose children are taken *)
(* in descending instead of ascending index order.                         *)
(***************************************************************************)
RECURSIVE SetToSeq(_)
SetToSeq(S) ==
    IF S = {} THEN <<>>
    ELSE LET m == CHOOSE x \in S : \A y \in S : x <= y
         IN  <<m>> \o SetToSeq(S \ {m})

Reversed(s) == [i \in 1..Len(s) |-> s[Len(s) + 1 - i]]

ChildOrder(ns, v, flip) ==
    IF v \in flip THEN Reversed(SetToSeq(ns[v].prev)) ELSE SetToSeq(ns[v].prev)

\* faulty variant: the visited set is never consulted
NotVisitedAlways(v, visited) == TRUE

\* if v not in visited
NotVisited(v, visited) == v \notin visited

RECURSIVE BuildTopo(_, _, _, _)
RECURSIVE VisitChildren(_, _, _, _)
\* st = [visited, topo]
BuildTopo(ns, v, st, flip) ==
    IF NotVisited(v, st.visited)
    THEN LET st1 == [st EXCEPT !.visited = @ \cup {v}]
             st2 == VisitChildren(ns, ChildOrder(ns, v, flip), st1, flip)
         IN  [st2 EXCEPT !.topo = Append(@, v)]
    ELSE st

VisitChildren(ns, cs, st, flip) ==
    IF cs = <<>> THEN st
    ELSE VisitChildren(ns, Tail(cs), BuildTopo(ns, Head(cs), st, flip), flip)

\* faulty variant: every node of the store is ordered, reachable or not
TopoWholeStore(ns, t, flip) == [i \in 1..Len(ns) |-> i]

Topo(ns, t, flip) == BuildTopo(ns, t, [visited |-> {}, topo |-> <<>>], flip).topo

\* for node in <order>: node._backward()
RECURSIVE RunRules(_, _)
RunRules(ns, order) ==
    IF order = <<>> THEN ns
    ELSE RunRules(RunRule(ns, Head(order)), Tail(order))

\* self.grad = 1.0
Seed(ns, t) == [ns EXCEPT ![t].grad = 1]

\* faulty variant: the rules run in topological instead of reverse order
CallOrderForward(topo) == topo

\* reversed(topo)
CallOrder(topo) == Reversed(topo)

BackwardOp(ns, t, flip) == RunRules(Seed(ns, t), CallOrder(Topo(ns, t, flip)))

\* s + v for a plain number s: int/float.__add__ returns NotImplemented and
\* class Value defines no __radd__, so Python raises TypeError.
RAddOp(ns, a, o) == [ns |-> ns, err |-> "TypeError"]


\* the nodes reachable from the nodes of S through operand edges
RECURSIVE ReachSet(_, _)
ReachSet(ns, S) ==
    LET S2 == S \cup UNION {ns[i].prev : i \in S}
    IN  IF S2 = S THEN S ELSE ReachSet(ns, S2)

Reach(ns, t) == ReachSet(ns, {t})

(***************************************************************************)
(* The engine driven freely: any operator on any existing Values.           *)
(***************************************************************************)
Ids == 1..Len(nodes)

Scalars == {ScalarArg(s) : s \in ScalarVals}

Args == {ValueArg(i) : i \in Ids} \cup Scalars

Fits(ns) == Len(ns) <= MaxNodes

\* An exception is not caught anywhere in the source: it ends the run.
Running == last.err = "none"

Did(opname, a, o, ns, err) ==
    /\ Running
    /\ nodes' = ns
    /\ last' = [op |-> opname, t |-> a, arg |-> o, err |-> err,
                calls |-> <<>>, topo |-> <<>>]
    /\ UNCHANGED <<passes, script>>

Init ==
    /\ nodes = <<>>
    /\ last = NoOp
    /\ passes = 0
    /\ script = [pc |-> "free", links |-> 0]

\* Value(v)
Leaf ==
    \E v \in LeafVals :
        LET ns == Append(nodes, NewValue(v, {}, "", 0, 0, 0))
        IN  Fits(ns) /\ Did("leaf", Len(ns), ScalarArg(v), ns, "none")

\* a + o
Add ==
    \E a \in Ids, o \in Args :
        LET ns == AddOp(nodes, a, o)
        IN  Fits(ns) /\ Did("add", a, o, ns, "none")

\* s + a
RAdd ==
    \E a \in Ids, o \in Scalars :
        LET r == RAddOp(nodes, a, o)
        IN  Fits(r.ns) /\ Did("radd", a, o, r.ns, r.err)

\* a * o
Mul ==
    \E a \in Ids, o \in Args :
        LET ns == MulOp(nodes, a, o)
        IN  Fits(ns) /\ Did("mul", a, o, ns, "none")

\* s * a
RMul ==
    \E a \in Ids, o \in Scalars :
        LET ns == RMulOp(nodes, a, o)
        IN  Fits(ns) /\ Did("rmul", a, o, ns, "none")

\* a ** o
Pow ==
    \E a \in Ids, o \in {ValueArg(i) : i \in Ids} \cup {ScalarArg(p) : p \in PowExps} :
        /\ o.isValue \/ nodes[a].data = 0 \/ PowRepresentable(nodes[a].data, o.v)
        /\ LET r == PowOp(nodes, a, o)
           IN  Fits(r.ns) /\ Did("pow", a, o, r.ns, r.err)

\* -a
Neg ==
    \E a \in Ids :
        LET ns == NegOp(nodes, a)
        IN  Fits(ns) /\ Did("neg", a, ScalarArg(0), ns, "none")

\* a - o
Sub ==
    \E a \in Ids, o \in Args :
        LET ns == SubOp(nodes, a, o)
        IN  Fits(ns) /\ Did("sub", a, o, ns, "none")

\* a / o
Div ==
    \E a \in Ids, o \in Args :
        /\ IF o.isValue THEN nodes[o.v].data \in {-1, 0, 1} ELSE o.v \in {-1, 0, 1}
        /\ LET r == DivOp(nodes, a, o)
           IN  Fits(r.ns) /\ Did("div", a, o, r.ns, r.err)

\* a.tanh()
Tanh ==
    \E a \in Ids :
        /\ TanhRepresentable(nodes[a].data)
        /\ LET r == TanhOp(nodes, a)
           IN  Fits(r.ns) /\ Did("tanh", a, ScalarArg(0), r.ns, r.err)

\* a.exp()
Exp ==
    \E a \in Ids :
        /\ ExpRepresentable(nodes[a].data)
        /\ LET ns == ExpOp(nodes, a)
           IN  Fits(ns) /\ Did("exp", a, ScalarArg(0), ns, "none")

\* the iteration orders of the sets _prev that matter to t.backward()
FlipSets(ns, t) == SUBSET {i \in Reach(ns, t) : Cardinality(ns[i].prev) >= 2}

\* t.backward()
Backward ==
    \E t \in Ids : \E flip \in FlipSets(nodes, t) :
        /\ Running
        /\ passes < MaxPasses
        /\ passes' = passes + 1
        /\ nodes' = BackwardOp(nodes, t, flip)
        /\ last' = [op |-> "backward", t |-> t, arg |-> ScalarArg(0), err |-> "none",
                    calls |-> CallOrder(Topo(nodes, t, flip)),
                    topo |-> Topo(nodes, t, flip)]
        /\ UNCHANGED script

\* a = Value(v); p = a * s1; q = a + s2; r = p * q   (on an empty store)
DiamondGraph ==
    \E v \in DiamondVals, s1 \in ScalarVals, s2 \in ScalarVals :
        /\ nodes = <<>>
        /\ LET n1 == <<NewValue(v, {}, "", 0, 0, 0)>>
               n3 == MulOp(n1, 1, ScalarArg(s1))
               n5 == AddOp(n3, 1, ScalarArg(s2))
               n6 == MulOp(n5, 3, ValueArg(5))
           IN  Did("diamond", 1, ScalarArg(v), n6, "none")

Next ==
    \/ Leaf
    \/ Add
    \/ RAdd
    \/ Mul
    \/ RMul
    \/ Pow
    \/ Neg
    \/ Sub
    \/ Div
    \/ Tanh
    \/ Exp
    \/ Backward

Spec == Init /\ [][Next]_vars


\* v._prev.add(u): _prev is a plain mutable attribute, and writing to it is the
\* only way the operand relation of an existing node changes.  The closure
\* _backward keeps the operands it captured.
LinkPrev ==
    \E v \in Ids, u \in Ids :
        /\ Running
        /\ script.links < MaxLinks
        /\ u \notin nodes[v].prev
        /\ nodes' = [nodes EXCEPT ![v].prev = @ \cup {u}]
        /\ last' = [op |-> "link", t |-> v, arg |-> ValueArg(u), err |-> "none",
                    calls |-> <<>>, topo |-> <<>>]
        /\ script' = [script EXCEPT !.links = @ + 1]
        /\ UNCHANGED passes

NextCyc == Leaf \/ Add \/ Mul \/ LinkPrev \/ Backward

SpecCyc == Init /\ [][NextCyc]_vars

NextPow == Leaf \/ Pow \/ Backward

SpecPow == Init /\ [][NextPow]_vars

NextArith == Leaf \/ Add \/ Mul \/ Backward \/ DiamondGraph

SpecArith == Init /\ [][NextArith]_vars

(***************************************************************************)
(* Reference notions the claims are stated with.                           *)
(***************************************************************************)
\* the local partial derivatives of node c towards n, summed over the operand
\* positions of c that n occupies (add: 1; multiply: the other operand's value;
\* power: p * x^(p-1); tanh: 1 - t^2; exp: e^x)
EdgeWeight(ns, c, n) ==
    CASE ns[c].op = "+" ->
            (IF ns[c].self = n THEN 1 ELSE 0) + (IF ns[c].other = n THEN 1 ELSE 0)
      [] ns[c].op = "*" ->
            (IF ns[c].self = n THEN ns[ns[c].other].data ELSE 0)
          + (IF ns[c].other = n THEN ns[ns[c].self].data ELSE 0)
      [] ns[c].op = "**" /\ ns[c].self = n ->
            ns[c].exp * PyPow(ns[n].data, ns[c].exp - 1)
      [] ns[c].op = "tanh" /\ ns[c].self = n -> 1 - ns[c].data * ns[c].data
      [] ns[c].op = "exp" /\ ns[c].self = n -> ns[c].data
      [] OTHER -> 0

\* the sum over all operand-edge paths from t down to n of the product of the
\* local partial derivatives; an operand always has a smaller index than its
\* consumer.
RECURSIVE PathSum(_, _, _)
RECURSIVE PathSumFrom(_, _, _, _)
PathSum(ns, t, n) == IF n = t THEN 1 ELSE PathSumFrom(ns, t, n, n + 1)

PathSumFrom(ns, t, n, c) ==
    IF c > Len(ns) THEN 0
    ELSE (IF EdgeWeight(ns, c, n) = 0 THEN 0
          ELSE PathSum(ns, t, c) * EdgeWeight(ns, c, n))
         + PathSumFrom(ns, t, n, c + 1)

Count(seq, x) == Cardinality({i \in 1..Len(seq) : seq[i] = x})

Pos(seq, x) == CHOOSE i \in 1..Len(seq) : seq[i] = x

Consumers(ns, t, n) == {c \in Reach(ns, t) : n \in ns[c].prev}

BackwardStep == passes' = passes + 1 /\ last'.op = "backward"

AddMulOnly(ns, t) == \A i \in Reach(ns, t) : ns[i].op \in {"", "+", "*"}

\* the store is the expression of the diamond test with a = 2, 3 and 1
IsDiamond ==
    /\ Len(nodes) = 6
    /\ nodes[1].data = 2 /\ nodes[2].data = 3 /\ nodes[4].data = 1
    /\ nodes[3].op = "*" /\ nodes[3].self = 1 /\ nodes[3].other = 2
    /\ nodes[5].op = "+" /\ nodes[5].self = 1 /\ nodes[5].other = 4
    /\ nodes[6].op = "*" /\ nodes[6].self = 3 /\ nodes[6].other = 5

(***************************************************************************)
(* C1: after backward(t) on a graph of add and multiply nodes whose         *)
(* reachable gradients were all 0, t has gradient 1 and every reachable     *)
(* node's gradient is the sum over the operand-edge paths from t of the     *)
(* product of the local partial derivatives; for a = 2, p = a * 3,          *)
(* q = a + 1, r = p * q, backward(r) leaves a.grad = 15.                    *)
(***************************************************************************)
C1_ChainRule ==
    [][BackwardStep =>
        LET t == last'.t IN
        /\ (AddMulOnly(nodes, t) /\ \A i \in Reach(nodes, t) : nodes[i].grad = 0) =>
              /\ nodes'[t].grad = 1
              /\ \A n \in Reach(nodes, t) : nodes'[n].grad = PathSum(nodes, t, n)
        /\ (IsDiamond /\ passes = 0 /\ t = 6) => nodes'[1].grad = 15
      ]_vars

C1_Witness ==
    /\ IsDiamond
    /\ last.op = "backward" /\ last.t = 6 /\ passes = 1
    /\ nodes[1].grad = 15

(***************************************************************************)
(* C2: for a leaf a with gradient 0, b = a * a followed by backward(b)      *)
(* leaves a.grad = 2 * a.data: both operand positions contribute.           *)
(***************************************************************************)
C2_SquareGradient ==
    [][BackwardStep =>
        LET b == last'.t
            a == nodes[b].self
        IN  (/\ nodes[b].op = "*" /\ nodes[b].other = a
             /\ nodes[a].op = "" /\ nodes[a].grad = 0)
            => nodes'[a].grad = 2 * nodes[a].data
      ]_vars

C2_Witness ==
    /\ last.op = "backward" /\ passes = 1
    /\ nodes[last.t].op = "*"
    /\ nodes[last.t].self = nodes[last.t].other
    /\ nodes[nodes[last.t].self].op = ""
    /\ nodes[nodes[last.t].self].data = 3
    /\ nodes[nodes[last.t].self].grad = 6

(***************************************************************************)
(* C9: in one backward(t) pass the rule of every node reachable from t is   *)
(* invoked exactly once, and the rule of no other node is invoked.          *)
(***************************************************************************)
C9_EachRuleOnce ==
    last.op = "backward" =>
        \A n \in Ids :
            Count(last.calls, n) = IF n \in Reach(nodes, last.t) THEN 1 ELSE 0

C9_Witness ==
    /\ last.op = "backward"
    /\ \E n \in Reach(nodes, last.t) :
          /\ Cardinality(Consumers(nodes, last.t, n)) >= 2
          /\ Count(last.calls, n) = 1
    /\ Len(last.calls) = Cardinality(Reach(nodes, last.t))

(***************************************************************************)
(* C10: the ordering built by build_topo places every node after all of its *)
(* operands, and in the reverse traversal a node's rule is invoked only     *)
(* after the rules of all nodes reachable from t that use it as an operand. *)
(***************************************************************************)
C10_ConsumersFirst ==
    last.op = "backward" =>
        /\ \A i \in 1..Len(last.topo) : \A c \in nodes[last.topo[i]].prev :
              \E j \in 1..(i - 1) : last.topo[j] = c
        /\ \A j \in 1..Len(last.calls) : \A u \in Consumers(nodes, last.t, last.calls[j]) :
              \E i \in 1..(j - 1) : last.calls[i] = u

C10_Witness ==
    /\ last.op = "backward"
    /\ \E n \in Reach(nodes, last.t) :
          /\ Cardinality(Consumers(nodes, last.t, n)) >= 2
          /\ \A u \in Consumers(nodes, last.t, n) :
                Pos(last.calls, u) < Pos(last.calls, n)
    /\ last.calls[1] = last.t


(***************************************************************************)
(* C3: add and multiply of a node and a plain scalar succeed with the       *)
(* scalar in either operand position: the scalar becomes a new leaf         *)
(* (gradient 0, no operands) and the result is a new node whose value is    *)
(* the sum/product and whose operands are the node and the new leaf.        *)
(***************************************************************************)
C3_ScalarEitherSide ==
    (last.op \in {"add", "radd", "mul", "rmul"} /\ ~last.arg.isValue) =>
        LET n == Len(nodes) IN
        /\ last.err = "none"
        /\ n >= 3
        /\ nodes[n - 1] = NewValue(last.arg.v, {}, "", 0, 0, 0)
        /\ nodes[n].prev = {last.t, n - 1}
        /\ nodes[n].grad = 0
        /\ nodes[n].data = IF last.op \in {"add", "radd"}
                           THEN nodes[last.t].data + last.arg.v
                           ELSE nodes[last.t].data * last.arg.v

(***************************************************************************)
(* C5: power(a, p) with p a node fails at once with an error: no node is    *)
(* created and no existing node's value, operands or gradient changes.      *)
(***************************************************************************)
C5_PowRejectsNode ==
    [][(Running /\ last'.op = "pow" /\ last'.arg.isValue) =>
          (last'.err = "AssertionError" /\ nodes' = nodes)]_vars

C5_Witness ==
    /\ last.op = "pow" /\ last.arg.isValue /\ last.err = "AssertionError"
    /\ \E i \in Ids : nodes[i].grad # 0 /\ nodes[i].op = "**"

(***************************************************************************)
(* C8: an operator builder changes no field of an existing node;            *)
(* backward(t) changes only gradients, and only of nodes reachable from t.  *)
(***************************************************************************)
C8_Frame ==
    [][/\ Len(nodes') >= Len(nodes)
       /\ ~BackwardStep => \A i \in Ids : nodes'[i] = nodes[i]
       /\ BackwardStep =>
            /\ Len(nodes') = Len(nodes)
            /\ \A i \in Ids :
                  /\ [nodes'[i] EXCEPT !.grad = nodes[i].grad] = nodes[i]
                  /\ i \notin Reach(nodes, last'.t) => nodes'[i].grad = nodes[i].grad
      ]_vars

C8_Witness ==
    /\ last.op = "backward" /\ passes = 2
    /\ \E i \in Ids : i \notin Reach(nodes, last.t) /\ nodes[i].grad # 0
    /\ \E i \in Reach(nodes, last.t) : i # last.t /\ nodes[i].grad # 0


(***************************************************************************)
(* The same expression evaluated twice over the same two leaves (the        *)
(* forward + backward cycle of the training loop, on an arbitrary           *)
(* expression).  An expression is a postfix word over the leaves a and b,   *)
(* the operators + and * and the square ** 2, with at most MaxSquares       *)
(* squares; Python evaluates x + y as x.__add__(y), left operand first.     *)
(***************************************************************************)
MaxExprLen == 5

MaxSquares == 2

Tokens == {"a", "b", "+", "*", "sq"}

RECURSIVE StackDepth(_, _)
\* the stack depth after the first k tokens, -1 once the stack underflows
StackDepth(e, k) ==
    IF k = 0 THEN 0
    ELSE LET d == StackDepth(e, k - 1)
         IN  CASE d < 0 -> -1
               [] e[k] \in {"a", "b"} -> d + 1
               [] e[k] = "sq" -> IF d >= 1 THEN d ELSE -1
               [] OTHER -> IF d >= 2 THEN d - 1 ELSE -1

Exprs ==
    {e \in UNION {[1..n -> Tokens] : n \in 1..MaxExprLen} :
        StackDepth(e, Len(e)) = 1 /\ Count(e, "sq") <= MaxSquares}

RECURSIVE Eval(_, _, _)
\* st = [ns, stack]: the store and the stack of operand indices
Eval(e, k, st) ==
    IF k > Len(e) THEN st
    ELSE LET n == Len(st.stack)
             tok == e[k]
         IN  CASE tok = "a" -> Eval(e, k + 1, [st EXCEPT !.stack = Append(@, 1)])
               [] tok = "b" -> Eval(e, k + 1, [st EXCEPT !.stack = Append(@, 2)])
               [] tok = "sq" ->
                    LET ns == PowOp(st.ns, st.stack[n], ScalarArg(2)).ns
                    IN  Eval(e, k + 1, [ns |-> ns,
                                        stack |-> Append(SubSeq(st.stack, 1, n - 1), Len(ns))])
               [] OTHER ->
                    LET x == st.stack[n - 1]
                        y == st.stack[n]
                        ns == IF tok = "+" THEN AddOp(st.ns, x, ValueArg(y))
                                           ELSE MulOp(st.ns, x, ValueArg(y))
                    IN  Eval(e, k + 1, [ns |-> ns,
                                        stack |-> Append(SubSeq(st.stack, 1, n - 2), Len(ns))])

\* faulty variant: the gradients are not reset
ZeroGradSkip(ns, P) == ns

\* for p in <P>: p.grad = 0.0
ZeroGrad(ns, P) ==
    [i \in 1..Len(ns) |-> IF i \in P THEN [ns[i] EXCEPT !.grad = 0] ELSE ns[i]]

Note(opname, t) ==
    [op |-> opname, t |-> t, arg |-> ScalarArg(0), err |-> "none",
     calls |-> <<>>, topo |-> <<>>]

InitReset ==
    /\ \E va \in LeafVals, vb \in LeafVals :
          nodes = <<NewValue(va, {}, "", 0, 0, 0), NewValue(vb, {}, "", 0, 0, 0)>>
    /\ last = NoOp
    /\ passes = 0
    /\ \E e \in Exprs :
          script = [pc |-> "build", expr |-> e, round |-> 1, root |-> 0, first |-> <<0, 0>>]

BuildExpr ==
    /\ script.pc = "build"
    /\ LET st == Eval(script.expr, 1, [ns |-> nodes, stack |-> <<>>])
       IN  /\ nodes' = st.ns
           /\ script' = [script EXCEPT !.pc = "zero", !.root = st.stack[1]]
           /\ last' = Note("build", st.stack[1])
    /\ UNCHANGED passes

ZeroLeaves ==
    /\ script.pc = "zero"
    /\ nodes' = ZeroGrad(nodes, {1, 2})
    /\ script' = [script EXCEPT !.pc = "backward"]
    /\ last' = Note("zero", 0)
    /\ UNCHANGED passes

BackwardRoot ==
    /\ script.pc = "backward"
    /\ \E flip \in FlipSets(nodes, script.root) :
          /\ nodes' = BackwardOp(nodes, script.root, flip)
          /\ last' = [Note("backward", script.root) EXCEPT
                        !.calls = CallOrder(Topo(nodes, script.root, flip)),
                        !.topo = Topo(nodes, script.root, flip)]
    /\ passes' = passes + 1
    /\ script' = IF script.round = 1
                 THEN [script EXCEPT !.pc = "build", !.round = 2,
                                     !.first = <<nodes'[1].grad, nodes'[2].grad>>]
                 ELSE [script EXCEPT !.pc = "done"]

NextReset == BuildExpr \/ ZeroLeaves \/ BackwardRoot

SpecReset == InitReset /\ [][NextReset]_vars

(***************************************************************************)
(* C7: the same expression built twice from the same leaves, each followed  *)
(* by a backward pass on leaves reset to 0, gives every leaf the same       *)
(* gradient the second time as the first.                                   *)
(***************************************************************************)
C7_ResetIdempotent ==
    script.pc = "done" =>
        /\ nodes[1].grad = script.first[1]
        /\ nodes[2].grad = script.first[2]

C7_Witness ==
    /\ script.pc = "done"
    /\ Count(script.expr, "a") >= 2
    /\ nodes[1].grad = script.first[1] /\ nodes[1].grad > 1
    /\ nodes[2].grad = script.first[2] /\ nodes[2].grad # 0

(***************************************************************************)
(* The training loop, on a network of one Neuron (MLP(NIn, [1])) and        *)
(* NSamples samples.  Neuron.__init__ creates the weights, then the bias.   *)
(* random.uniform(-1, 1) draws the parameters; the targets and inputs are   *)
(* data.  The learning rate is 0.05 = 1 / LrDen.                            *)
(***************************************************************************)
NIn == 1

NSamples == 1

MaxEpochs == 2

LrDen == 20

ParamVals == {-1, 0, 1}

XVals == {0, 5, 20}

YVals == {-10, 10}

Weights == 1..NIn

Bias == NIn + 1

\* Neuron.parameters / Layer.parameters / MLP.parameters
Parameters == Weights \cup {Bias}

RECURSIVE NeuronSum(_, _, _, _)
\* sum((wi * xi for wi, xi in zip(self.w, x)), self.b) from the i-th term on:
\* the generator yields wi * xi, then sum adds it to the running total
NeuronSum(ns, x, i, acc) ==
    IF i > NIn THEN [ns |-> ns, v |-> acc]
    ELSE LET ns1 == MulOp(ns, i, ScalarArg(x[i]))
             ns2 == AddOp(ns1, acc, ValueArg(Len(ns1)))
         IN  NeuronSum(ns2, x, i + 1, Len(ns2))

\* Neuron.__call__ (Layer.__call__ returns the only neuron's output, and
\* MLP.__call__ the only layer's)
NeuronCall(ns, x) ==
    LET act == NeuronSum(ns, x, 1, Bias)
        ns1 == TanhOp(act.ns, act.v).ns
    IN  [ns |-> ns1, v |-> Len(ns1)]

RECURSIVE Predict(_, _, _, _)
\* ypred = [n(x) for x in xs]
Predict(ns, xs, s, ypred) ==
    IF s > NSamples THEN [ns |-> ns, ypred |-> ypred]
    ELSE LET r == NeuronCall(ns, xs[s])
         IN  Predict(r.ns, xs, s + 1, Append(ypred, r.v))

RECURSIVE LossSum(_, _, _, _, _)
\* sum(((yout - ygt) ** 2 for ygt, yout in zip(ys, ypred)), <acc>)
LossSum(ns, ys, ypred, s, acc) ==
    IF s > NSamples THEN [ns |-> ns, v |-> acc]
    ELSE LET ns1 == SubOp(ns, ypred[s], ScalarArg(ys[s]))
             ns2 == PowOp(ns1, Len(ns1), ScalarArg(2)).ns
             ns3 == AddOp(ns2, acc, ValueArg(Len(ns2)))
         IN  LossSum(ns3, ys, ypred, s + 1, Len(ns3))

\* the forward pass: ypred, then the loss, whose start value Value(0.0) is
\* built before the first term
ForwardPass(ns, xs, ys) ==
    LET p == Predict(ns, xs, 1, <<>>)
        ns0 == Append(p.ns, NewValue(0, {}, "", 0, 0, 0))
    IN  LossSum(ns0, ys, p.ypred, 1, Len(ns0))

\* every tanh of the pass is evaluated where its float result is an integer
TanhExact(ns, from) ==
    \A i \in (from + 1)..Len(ns) :
        ns[i].op = "tanh" => /\ TanhRepresentable(ns[ns[i].self].data)
                             /\ ns[ns[i].self].data < TanhOverflow

\* p.data += -0.05 * p.grad
UpdateOp(ns, P) ==
    [i \in 1..Len(ns) |->
        IF i \in P THEN [ns[i] EXCEPT !.data = @ + (-(ns[i].grad \div LrDen))] ELSE ns[i]]

\* -0.05 * p.grad is an integer
UpdateRepresentable(ns, P) == \A i \in P : ns[i].grad % LrDen = 0

\* the two extreme iteration orders of the sets _prev
TrainFlipSets(ns, t) == {{}, {i \in Reach(ns, t) : Cardinality(ns[i].prev) >= 2}}

InitTrain ==
    /\ \E w \in [Weights -> ParamVals], b \in ParamVals :
          nodes = [i \in Parameters |->
                      NewValue(IF i = Bias THEN b ELSE w[i], {}, "", 0, 0, 0)]
    /\ last = NoOp
    /\ passes = 0
    /\ \E xs \in [1..NSamples -> [1..NIn -> XVals]], ys \in [1..NSamples -> YVals] :
          script = [pc |-> "forward", k |-> 0, xs |-> xs, ys |-> ys,
                    loss |-> 0, base |-> 0]

\* ypred = ...; loss = ...
Forward ==
    /\ script.pc = "forward"
    /\ script.k < MaxEpochs
    /\ LET r == ForwardPass(nodes, script.xs, script.ys)
       IN  /\ TanhExact(r.ns, Len(nodes))
           /\ nodes' = r.ns
           /\ script' = [script EXCEPT !.pc = "zero", !.loss = r.v, !.base = Len(nodes)]
           /\ last' = Note("forward", r.v)
    /\ UNCHANGED passes

\* for p in n.parameters(): p.grad = 0.0
ZeroParams ==
    /\ script.pc = "zero"
    /\ nodes' = ZeroGrad(nodes, Parameters)
    /\ script' = [script EXCEPT !.pc = "backward"]
    /\ last' = Note("zero", 0)
    /\ UNCHANGED passes

\* loss.backward()
LossBackward ==
    /\ script.pc = "backward"
    /\ \E flip \in TrainFlipSets(nodes, script.loss) :
          /\ nodes' = BackwardOp(nodes, script.loss, flip)
          /\ last' = [Note("backward", script.loss) EXCEPT
                        !.calls = CallOrder(Topo(nodes, script.loss, flip)),
                        !.topo = Topo(nodes, script.loss, flip)]
    /\ passes' = passes + 1
    /\ script' = [script EXCEPT !.pc = "update"]

\* for p in n.parameters(): p.data += -0.05 * p.grad
Update ==
    /\ script.pc = "update"
    /\ UpdateRepresentable(nodes, Parameters)
    /\ nodes' = UpdateOp(nodes, Parameters)
    /\ script' = [script EXCEPT !.pc = "forward", !.k = @ + 1]
    /\ last' = Note("update", 0)
    /\ UNCHANGED passes

NextTrain == Forward \/ ZeroParams \/ LossBackward \/ Update

SpecTrain == InitTrain /\ [][NextTrain]_vars

(***************************************************************************)
(* C6: in every iteration of the training loop, when loss.backward() is     *)
(* invoked every node reachable from the loss has gradient 0 (it is a       *)
(* parameter, reset in this iteration, or was created by this iteration's   *)
(* forward pass), so the gradients the pass leaves are those of this        *)
(* iteration alone.                                                         *)
(***************************************************************************)
C6_FreshGradients ==
    /\ script.pc = "backward" =>
          \A n \in Reach(nodes, script.loss) :
              /\ nodes[n].grad = 0
              /\ n \in Parameters \/ n > script.base
    /\ script.pc = "update" =>
          \A n \in Reach(nodes, script.loss) :
              nodes[n].grad = PathSum(nodes, script.loss, n)

C6_Witness ==
    /\ script.pc = "backward" /\ script.k >= 1
    /\ \E i \in Ids : i \notin Parameters /\ i <= script.base /\ nodes[i].grad \notin {0, 1}
    /\ \A n \in Reach(nodes, script.loss) : nodes[n].grad = 0
    /\ \E p \in Parameters : nodes[p].data \notin ParamVals

\* a cycle of the operand relation can be reached from t
HasCycle(ns, t) == \E n \in Reach(ns, t) : n \in ReachSet(ns, ns[n].prev)

(***************************************************************************)
(* C4: backward(t) on a graph with a cycle reachable from t fails with a    *)
(* CyclicGraph condition, and leaves every gradient as it was.              *)
(***************************************************************************)
C4_CycleRejected ==
    [][(BackwardStep /\ HasCycle(nodes, last'.t)) =>
          /\ last'.err = "CyclicGraph"
          /\ \A i \in Ids : nodes'[i].grad = nodes[i].grad
      ]_vars

=============================================================================
